---- MODULE Spec2Model ----
(***************************************************************************)
(* cobrapy-bigg-client: the memoized resource fetcher (_get behind         *)
(* cachetools.cached(LRUCache)), the listing operations, the accessors and *)
(* the reaction assembler (_build_reaction) of client.py.                  *)
(*                                                                         *)
(* Strings that the code takes apart or puts together (identifiers, URLs)  *)
(* are sequences of one-character strings, so that concatenation and the   *)
(* compartment regex are computed, not assumed.  Python's None is the      *)
(* one-element sequence <<"None">>, which no identifier equals.  An        *)
(* optional JSON key is a set holding at most one value.  Object identity  *)
(* is an address (field addr).                                             *)
(***************************************************************************)
EXTENDS Integers, Sequences, FiniteSets, TLC

VARIABLES
    LRU_CACHE,    \* client.py:76  the response cache, least recently used first
    reaction,     \* the Reaction object the caller holds and passes to get_*
    genes,        \* the caller-supplied gene cache (id -> Gene)
    metabolites,  \* the caller-supplied metabolite cache (universal id -> Metabolite)
    result,       \* outcome of the last call: status, value, requests issued
    hist,         \* observation of a session of direct _get calls
    threads       \* where each thread that calls _get stands in the cached() wrapper

vars == <<LRU_CACHE, reaction, genes, metabolites, result, hist, threads>>

----------------------------------------------------------------------------
\* Bounds of the model.

\* capacity of LRU_CACHE, scaled down from LRUCache(maxsize=524)
maxsize == 2
\* longest result list of a collection response
MaxResults == 2
\* longest escher_maps annotation list the model follows
MaxEscher == 4

----------------------------------------------------------------------------
\* Strings.

None == <<"None">>
US == <<"_">>
LowerCase ==
    {"a", "b", "c", "d", "e", "f", "g", "h", "i", "j", "k", "l", "m", "n", "o", "p", "q",
     "r", "s", "t", "u", "v", "w", "x", "y", "z"}

Digits == <<"0", "1", "2", "3", "4", "5", "6", "7", "8", "9">>

\* "%i" % n
RECURSIVE IntToStr(_)
IntToStr(n) ==
    IF n < 0 THEN <<"-">> \o IntToStr(-n)
    ELSE IF n < 10 THEN <<Digits[n + 1]>>
    ELSE IntToStr(n \div 10) \o <<Digits[(n % 10) + 1]>>

REACTIONS == <<"reactions">>
METABOLITES == <<"metabolites">>
GENES == <<"genes">>
BASE_URL == <<"http://bigg.ucsd.edu/api/v2/">>

----------------------------------------------------------------------------
\* cachetools.LRUCache and the cachetools.cached wrapper around _get.

Keys(c) == {c[i].key : i \in DOMAIN c}

Value(c, k) == (CHOOSE i \in DOMAIN c : c[i].key = k)

Without(c, k) == SelectSeq(c, LAMBDA e : e.key # k)

\* A cache whose hits do not count as a use (first in, first out).
LRUGetNoTouch(c, k) == c

\* LRUCache.__getitem__: a hit makes the entry the most recently used.
LRUGet(c, k) == Append(Without(c, k), c[Value(c, k)])

\* LRUCache.popitem: drops the least recently used entry.
PopItem(c) == Tail(c)

RECURSIVE MakeRoom(_)
MakeRoom(c) == IF Len(c) + 1 > maxsize /\ Len(c) > 0 THEN MakeRoom(PopItem(c)) ELSE c

\* A cache that stores nothing.
LRUSetNoStore(c, k, v) == c

\* LRUCache.__setitem__ with the default getsizeof (every entry has size 1).
LRUSet(c, k, v) ==
    IF maxsize < 1 THEN c   \* ValueError("value too large"), swallowed by cached()
    ELSE IF k \in Keys(c) THEN Append(Without(c, k), [key |-> k, val |-> v])
    ELSE Append(MakeRoom(c), [key |-> k, val |-> v])

\* The four endpoint shapes of _get.
Endpoint(t) ==
    IF t.entry_id = None
    THEN IF t.model_id = None
         THEN BASE_URL \o <<"universal/">> \o t.entry_type
         ELSE BASE_URL \o <<"models/">> \o t.model_id \o <<"/">> \o t.entry_type
    ELSE IF t.model_id = None
         THEN BASE_URL \o <<"universal/">> \o t.entry_type \o <<"/">> \o t.entry_id
         ELSE BASE_URL \o <<"models/">> \o t.model_id \o <<"/">> \o t.entry_type
                       \o <<"/">> \o t.entry_id

Triple(entry_type, entry_id, model_id) ==
    [entry_type |-> entry_type, entry_id |-> entry_id, model_id |-> model_id]

\* A network outcome: the HTTP status and, on success, the parsed JSON body.
HTTPError(status) == [status |-> status, json |-> {}]
OK(json) == [status |-> 200, json |-> {json}]

\* No request is issued, so the network gives no outcome.
NoAnswer == [status |-> 0, json |-> {}]

\* An outcome is drawn exactly when _get(t) has to ask the network.
Asks(c, t, net) == IF t \in Keys(c) THEN net = NoAnswer ELSE net # NoAnswer

\* One request on the wire: the URL, the triple it was built from and the status.
Request(t, net) == [url |-> Endpoint(t), key |-> t, status |-> net.status]

\* response.raise_for_status() raises for a 4xx or 5xx status.
RaisesForStatus(status) == status >= 400 /\ status < 600

\* _get with a retry: a failed request is issued a second time before raising.
_getRetrying(c, t, net) ==
    IF t \in Keys(c)
    THEN [cache |-> LRUGet(c, t), status |-> "ok", data |-> {c[Value(c, t)].val},
          requests |-> <<>>]
    ELSE IF ~RaisesForStatus(net.status)
         THEN [cache |-> LRUSet(c, t, CHOOSE j \in net.json : TRUE), status |-> "ok",
               data |-> net.json, requests |-> <<Request(t, net)>>]
         ELSE [cache |-> c, status |-> "HTTPError", data |-> {},
               requests |-> <<Request(t, net), Request(t, net)>>]

\* _get storing an empty body when the request fails.
_getStoringFailure(c, t, net) ==
    IF t \in Keys(c)
    THEN [cache |-> LRUGet(c, t), status |-> "ok", data |-> {c[Value(c, t)].val},
          requests |-> <<>>]
    ELSE IF ~RaisesForStatus(net.status)
         THEN [cache |-> LRUSet(c, t, CHOOSE j \in net.json : TRUE), status |-> "ok",
               data |-> net.json, requests |-> <<Request(t, net)>>]
         ELSE [cache |-> LRUSet(c, t, [name |-> "error"]), status |-> "HTTPError",
               data |-> {}, requests |-> <<Request(t, net)>>]

\* _get(entry_type, entry_id, model_id) as decorated: look the triple up, on a
\* miss issue one request, raise on a non-success status (nothing is stored),
\* otherwise store and return the JSON.  net is the outcome the network gives
\* if a request is issued.
_get(c, t, net) ==
    IF t \in Keys(c)
    THEN [cache |-> LRUGet(c, t), status |-> "ok", data |-> {c[Value(c, t)].val},
          requests |-> <<>>]
    ELSE IF ~RaisesForStatus(net.status)
         THEN [cache |-> LRUSet(c, t, CHOOSE j \in net.json : TRUE), status |-> "ok",
               data |-> net.json, requests |-> <<Request(t, net)>>]
         ELSE [cache |-> c, status |-> "HTTPError", data |-> {},
               requests |-> <<Request(t, net)>>]

\* The annotation list of the held reaction is the very list of a cached JSON
\* value only while that value is in the cache.
Unshare(rs, c) ==
    {[r EXCEPT !.annotation.escher_shared = @ \cap Keys(c)] : r \in rs}

----------------------------------------------------------------------------
\* A session of direct _get calls, with what an observer of the network sees.

M1 == <<"m", "1">>
R1 == <<"R", "1">>

NoResult == [op |-> "none", status |-> "ok", value |-> <<>>, requests |-> <<>>]

NoReaction == {}

FetchKeys ==
    { Triple(REACTIONS, None, None), Triple(REACTIONS, R1, None),
      Triple(REACTIONS, R1, M1), Triple(METABOLITES, None, M1) }

FetchBodies == { [name |-> "v1"], [name |-> "v2"] }

FetchOutcomes == {NoAnswer, HTTPError(404), HTTPError(500)} \cup {OK(b) : b \in FetchBodies}

\* called: triples passed to _get; requested: triples requested at least once;
\* repeated: triples requested more than once; failed: some call raised;
\* recency: the triples used in the cache (hit or insert), least recent first.
NoHistory ==
    [called |-> {}, requested |-> {}, repeated |-> {}, failed |-> FALSE,
     recency |-> <<>>]

Observe(h, t, r) ==
    [called    |-> h.called \cup {t},
     requested |-> IF r.requests # <<>> THEN h.requested \cup {t} ELSE h.requested,
     repeated  |-> IF r.requests # <<>> /\ t \in h.requested
                   THEN h.repeated \cup {t} ELSE h.repeated,
     failed    |-> h.failed \/ r.status # "ok",
     recency   |-> IF r.status = "ok"
                   THEN Append(SelectSeq(h.recency, LAMBDA u : u # t), t)
                   ELSE h.recency]

\* The threads of the caller.  A thread outside _get is idle.
Threads == {1, 2}

IdleThread == [pc |-> "idle", key |-> Triple(REACTIONS, None, None), val |-> {}]

NoCalls == [th \in Threads |-> IdleThread]

Fetch(t, net) ==
    LET r == _get(LRU_CACHE, t, net) IN
    /\ Asks(LRU_CACHE, t, net)
    /\ LRU_CACHE' = r.cache
    /\ result' = [op |-> "_get", status |-> r.status, value |-> r.data,
                  requests |-> r.requests, args |-> t]
    /\ hist' = Observe(hist, t, r)
    /\ reaction' = Unshare(reaction, r.cache)
    /\ UNCHANGED <<genes, metabolites, threads>>

InitModule ==
    /\ LRU_CACHE = <<>>
    /\ reaction = NoReaction
    /\ genes = <<>>
    /\ metabolites = <<>>
    /\ result = NoResult
    /\ hist = NoHistory
    /\ threads = NoCalls

NextFetch == \E t \in FetchKeys, net \in FetchOutcomes : Fetch(t, net)

SpecFetch == InitModule /\ [][NextFetch]_vars

----------------------------------------------------------------------------
\* Two threads in _get.  @cached(LRU_CACHE) (client.py:683) passes no lock, so
\* the wrapper runs "return cache[k]", on KeyError the decorated function, then
\* "cache[k] = v", and acquires nothing around the two cache operations.  A
\* thread can be preempted inside LRUCache.__getitem__ or __setitem__ (both
\* are Python code); the model lets the whole method take effect at the step
\* that leaves it.

\* pc values at which a thread is inside a method of LRU_CACHE
InCache == {"getitem", "setitem"}

\* the thread calls _get(t): the wrapper enters cache[k]
ThreadCall(th, t) ==
    /\ threads[th].pc = "idle"
    /\ threads' = [threads EXCEPT ![th] = [pc |-> "getitem", key |-> t, val |-> {}]]
    /\ UNCHANGED <<LRU_CACHE, reaction, genes, metabolites, result, hist>>

\* cache[k] returns (the call is over) or raises KeyError (the request is next)
ThreadGetItem(th) ==
    LET t == threads[th].key IN
    /\ threads[th].pc = "getitem"
    /\ IF t \in Keys(LRU_CACHE)
       THEN /\ LRU_CACHE' = LRUGet(LRU_CACHE, t)
            /\ threads' = [threads EXCEPT ![th] = IdleThread]
       ELSE /\ threads' = [threads EXCEPT ![th].pc = "request"]
            /\ UNCHANGED LRU_CACHE
    /\ UNCHANGED <<reaction, genes, metabolites, result, hist>>

\* requests.get answers: raise_for_status ends the call, else cache[k] = v is next
ThreadRequest(th, net) ==
    /\ threads[th].pc = "request"
    /\ net # NoAnswer
    /\ threads' = [threads EXCEPT ![th] =
                      IF RaisesForStatus(net.status) THEN IdleThread
                      ELSE [@ EXCEPT !.pc = "setitem", !.val = net.json]]
    /\ UNCHANGED <<LRU_CACHE, reaction, genes, metabolites, result, hist>>

\* cache[k] = v returns and with it the call
ThreadSetItem(th) ==
    /\ threads[th].pc = "setitem"
    /\ LRU_CACHE' = LRUSet(LRU_CACHE, threads[th].key,
                           CHOOSE j \in threads[th].val : TRUE)
    /\ threads' = [threads EXCEPT ![th] = IdleThread]
    /\ UNCHANGED <<reaction, genes, metabolites, result, hist>>

NextThreads ==
    \E th \in Threads :
        \/ \E t \in FetchKeys : ThreadCall(th, t)
        \/ ThreadGetItem(th)
        \/ \E net \in FetchOutcomes : ThreadRequest(th, net)
        \/ ThreadSetItem(th)

SpecThreads == InitModule /\ [][NextThreads]_vars

----------------------------------------------------------------------------
\* cobra objects.  A fresh object gets the lowest address no live object has.

FreshAddr(used) == CHOOSE a \in 1..(Cardinality(used) + 1) :
                       a \notin used /\ \A b \in 1..(a - 1) : b \in used

NoAnnotation ==
    [pseudoreaction |-> {}, escher_maps |-> {}, escher_shared |-> {},
     database_links |-> {}, models_containing_reaction |-> {}, organism |-> {},
     protein_sequence |-> {}, charges |-> {}, formulae |-> {}, models |-> {}]

\* Reaction(id=..., name=...)
Reaction(addr, id, name) ==
    [addr |-> addr, id |-> id, name |-> name, annotation |-> NoAnnotation,
     _genes |-> {}, _gene_reaction_rule |-> "", _metabolites |-> {}]

\* Metabolite(id=..., name=..., compartment=...)
Metabolite(addr, id, name, compartment) ==
    [addr |-> addr, id |-> id, name |-> name, compartment |-> compartment,
     formula |-> {}, charge |-> {}, annotation |-> NoAnnotation]

\* Gene(id=..., name=...)
Gene(addr, id, name) ==
    [addr |-> addr, id |-> id, name |-> name, annotation |-> NoAnnotation]

\* DictList.__contains__ (by identifier) and DictList.append (raises ValueError
\* when the identifier is already present).
Contains(dictlist, id) == \E i \in DOMAIN dictlist : dictlist[i].id = id

DictListAppend(d, obj) ==
    IF Contains(d.list, obj.id)
    THEN [list |-> d.list, status |-> "ValueError"]
    ELSE [list |-> Append(d.list, obj), status |-> d.status]

ListAppend(d, obj) == [list |-> Append(d.list, obj), status |-> d.status]

EmptyList == [list |-> <<>>, status |-> "ok"]

\* Addresses the caller's objects occupy.
Live ==
    {r.addr : r \in reaction}
        \cup UNION {{g.addr : g \in r._genes} : r \in reaction}
        \cup UNION {{e.met.addr : e \in r._metabolites} : r \in reaction}
        \cup {genes[k].addr : k \in DOMAIN genes}
        \cup {metabolites[k].addr : k \in DOMAIN metabolites}

\* The n-th fresh address beyond the set used.
RECURSIVE NthFresh(_, _)
NthFresh(used, n) ==
    IF n <= 1 THEN FreshAddr(used) ELSE NthFresh(used \cup {FreshAddr(used)}, n - 1)

----------------------------------------------------------------------------
\* Listing operations.

Raised(op, r) ==
    [op |-> op, status |-> r.status, value |-> <<>>, requests |-> r.requests]

Returned(op, r, d) ==
    [op |-> op, status |-> d.status,
     value |-> IF d.status = "ok" THEN d.list ELSE <<>>, requests |-> r.requests]

\* The loop of list_reactions and of list_model_reactions: a record whose
\* bigg_id is already in the DictList is skipped.
ReactionsLoop(results) ==
    LET f[n \in 0..Len(results)] ==
            IF n = 0 THEN EmptyList
            ELSE IF f[n - 1].status # "ok" THEN f[n - 1]
            ELSE IF Contains(f[n - 1].list, results[n].bigg_id) THEN f[n - 1]
            ELSE DictListAppend(f[n - 1],
                     Reaction(NthFresh(Live, n), results[n].bigg_id, results[n].name))
    IN f[Len(results)]

\* The loop of list_metabolites: no membership test before DictList.append.
MetabolitesLoop(results) ==
    LET f[n \in 0..Len(results)] ==
            IF n = 0 THEN EmptyList
            ELSE IF f[n - 1].status # "ok" THEN f[n - 1]
            ELSE DictListAppend(f[n - 1],
                     Metabolite(NthFresh(Live, n), results[n].bigg_id, results[n].name,
                                None))
    IN f[Len(results)]

\* The loop of list_model_metabolites: the identifier is
\* bigg_id + "_" + compartment_bigg_id.
ModelMetabolitesLoop(results) ==
    LET f[n \in 0..Len(results)] ==
            IF n = 0 THEN EmptyList
            ELSE IF f[n - 1].status # "ok" THEN f[n - 1]
            ELSE LET metabolite_id ==
                         results[n].bigg_id \o US \o results[n].compartment_bigg_id
                 IN IF Contains(f[n - 1].list, metabolite_id) THEN f[n - 1]
                    ELSE DictListAppend(f[n - 1],
                             Metabolite(NthFresh(Live, n), metabolite_id,
                                        results[n].name, None))
    IN f[Len(results)]

\* The loop of list_model_genes: a plain list, every record is appended.
ModelGenesLoop(results) ==
    LET f[n \in 0..Len(results)] ==
            IF n = 0 THEN EmptyList
            ELSE LET gene == Gene(NthFresh(Live, n), results[n].bigg_id, results[n].name)
                 IN ListAppend(f[n - 1],
                        [gene EXCEPT !.annotation.organism = {results[n].organism}])
    IN f[Len(results)]

\* Every list_* operation is one _get and then the loop over data["results"].

\* list_reactions()
list_reactions(net) ==
    LET t == Triple(REACTIONS, None, None)
        r == _get(LRU_CACHE, t, net)
    IN /\ Asks(LRU_CACHE, t, net)
       /\ LRU_CACHE' = r.cache
       /\ result' = IF r.status # "ok" THEN Raised("list_reactions", r)
                    ELSE Returned("list_reactions", r,
                                  ReactionsLoop((CHOOSE j \in r.data : TRUE).results))
       /\ reaction' = Unshare(reaction, r.cache)
       /\ UNCHANGED <<genes, metabolites, hist, threads>>

\* list_model_reactions(model_id)
list_model_reactions(model_id, net) ==
    LET t == Triple(REACTIONS, None, model_id)
        r == _get(LRU_CACHE, t, net)
    IN /\ Asks(LRU_CACHE, t, net)
       /\ LRU_CACHE' = r.cache
       /\ result' = IF r.status # "ok" THEN Raised("list_model_reactions", r)
                    ELSE Returned("list_model_reactions", r,
                                  ReactionsLoop((CHOOSE j \in r.data : TRUE).results))
       /\ reaction' = Unshare(reaction, r.cache)
       /\ UNCHANGED <<genes, metabolites, hist, threads>>

\* list_metabolites()
list_metabolites(net) ==
    LET t == Triple(METABOLITES, None, None)
        r == _get(LRU_CACHE, t, net)
    IN /\ Asks(LRU_CACHE, t, net)
       /\ LRU_CACHE' = r.cache
       /\ result' = IF r.status # "ok" THEN Raised("list_metabolites", r)
                    ELSE Returned("list_metabolites", r,
                                  MetabolitesLoop((CHOOSE j \in r.data : TRUE).results))
       /\ reaction' = Unshare(reaction, r.cache)
       /\ UNCHANGED <<genes, metabolites, hist, threads>>

\* list_model_metabolites(model_id)
list_model_metabolites(model_id, net) ==
    LET t == Triple(METABOLITES, None, model_id)
        r == _get(LRU_CACHE, t, net)
    IN /\ Asks(LRU_CACHE, t, net)
       /\ LRU_CACHE' = r.cache
       /\ result' = IF r.status # "ok" THEN Raised("list_model_metabolites", r)
                    ELSE Returned("list_model_metabolites", r,
                                  ModelMetabolitesLoop((CHOOSE j \in r.data : TRUE).results))
       /\ reaction' = Unshare(reaction, r.cache)
       /\ UNCHANGED <<genes, metabolites, hist, threads>>

\* list_model_genes(model_id)
list_model_genes(model_id, net) ==
    LET t == Triple(GENES, None, model_id)
        r == _get(LRU_CACHE, t, net)
    IN /\ Asks(LRU_CACHE, t, net)
       /\ LRU_CACHE' = r.cache
       /\ result' = IF r.status # "ok" THEN Raised("list_model_genes", r)
                    ELSE Returned("list_model_genes", r,
                                  ModelGenesLoop((CHOOSE j \in r.data : TRUE).results))
       /\ reaction' = Unshare(reaction, r.cache)
       /\ UNCHANGED <<genes, metabolites, hist, threads>>

----------------------------------------------------------------------------
\* The reaction assembler.  A dict is a function from identifiers to objects;
\* the empty dict and None are both falsy and both written <<>>.

Put(d, k, v) == [x \in DOMAIN d \cup {k} |-> IF x = k THEN v ELSE d[x]]

RECURSIVE SetToSeq(_)
SetToSeq(S) ==
    IF S = {} THEN <<>>
    ELSE LET x == CHOOSE y \in S : TRUE IN <<x>> \o SetToSeq(S \ {x})

IndexOf(s, x) == CHOOSE i \in DOMAIN s : s[i] = x

\* Reaction.copy(): a deep copy, so the copy, its genes, its metabolites and its
\* annotation lists are new objects.  The copy takes the first fresh address,
\* its genes and metabolites the following ones.
ReactionCopy(r, used) ==
    LET gs == SetToSeq(r._genes)
        ms == SetToSeq({e.met : e \in r._metabolites})
    IN [addr |-> NthFresh(used, 1), id |-> r.id, name |-> r.name,
        annotation |-> [r.annotation EXCEPT !.escher_shared = {}],
        _genes |-> {[gs[i] EXCEPT !.addr = NthFresh(used, 1 + i)] : i \in DOMAIN gs},
        _gene_reaction_rule |-> r._gene_reaction_rule,
        _metabolites |->
            {[met |-> [e.met EXCEPT !.addr = NthFresh(used, 1 + Len(gs) + IndexOf(ms, e.met))],
              coef |-> e.coef] : e \in r._metabolites}]

CopyAddrs(r, used) ==
    {NthFresh(used, i) :
        i \in 1..(1 + Cardinality(r._genes) + Cardinality({e.met : e \in r._metabolites}))}

\* add_metabolites with its default combine=True: the coefficient of a
\* metabolite the reaction already has is added to, not replaced.
AddMetabolitesCombine(r, stoichiometry) ==
    LET ids == {e.met.id : e \in r._metabolites}
        f[n \in 0..Len(stoichiometry)] ==
            IF n = 0 THEN r._metabolites
            ELSE LET s == stoichiometry[n] IN
                 IF s.met.id \in ids
                 THEN {IF e.met.id = s.met.id THEN [e EXCEPT !.coef = e.coef + s.coef] ELSE e
                          : e \in f[n - 1]}
                 ELSE f[n - 1] \cup {s}
    IN [r EXCEPT !._metabolites = {e \in f[Len(stoichiometry)] : e.coef # 0}]

\* Reaction.add_metabolites(stoichiometry, combine=False): a metabolite whose
\* identifier the reaction already has keeps the reaction's instance and takes
\* the new coefficient; any other is added; entries left with coefficient 0
\* are removed.  stoichiometry is the dict in insertion order.
AddMetabolites(r, stoichiometry) ==
    LET ids == {e.met.id : e \in r._metabolites}
        f[n \in 0..Len(stoichiometry)] ==
            IF n = 0 THEN r._metabolites
            ELSE LET s == stoichiometry[n] IN
                 IF s.met.id \in ids
                 THEN {IF e.met.id = s.met.id THEN [e EXCEPT !.coef = s.coef] ELSE e
                          : e \in f[n - 1]}
                 ELSE f[n - 1] \cup {s}
    IN [r EXCEPT !._metabolites = {e \in f[Len(stoichiometry)] : e.coef # 0}]

\* stoichiometry[metabolite] = coefficient on a dict keyed by object identity.
SetCoefficient(stoichiometry, met, coef) ==
    IF \E i \in DOMAIN stoichiometry : stoichiometry[i].met.addr = met.addr
    THEN [i \in DOMAIN stoichiometry |->
             IF stoichiometry[i].met.addr = met.addr
             THEN [met |-> met, coef |-> coef] ELSE stoichiometry[i]]
    ELSE Append(stoichiometry, [met |-> met, coef |-> coef])

\* A gene loop without the two lookups: every record makes a new Gene.
GeneLoopFresh(gene_list, callers, local, used) ==
    LET f[n \in 0..Len(gene_list)] ==
            IF n = 0 THEN [callers |-> callers, local |-> local, used |-> used, genes_set |-> {}]
            ELSE LET p == f[n - 1]
                     gene_id == gene_list[n].bigg_id
                     gene == Gene(FreshAddr(p.used), gene_id, gene_list[n].name)
                 IN [callers |-> p.callers, local |-> Put(p.local, gene_id, gene),
                     used |-> p.used \cup {gene.addr},
                     genes_set |-> p.genes_set \cup {gene}]
    IN f[Len(gene_list)]

\* The gene loop of _build_reaction (client.py:714-726).  callers is the dict
\* bound to genes after "genes = genes or _genes": the caller's dict when that
\* is non-empty, else the local dict itself.  The loop reads callers and writes
\* local only (client.py:723); both come back as the loop leaves them.
GeneLoop(gene_list, callers, local, used) ==
    LET f[n \in 0..Len(gene_list)] ==
            IF n = 0 THEN [callers |-> callers, local |-> local, used |-> used, genes_set |-> {}]
            ELSE LET p == f[n - 1]
                     gene_id == gene_list[n].bigg_id
                     bound == IF p.callers # <<>> THEN p.callers ELSE p.local
                 IN IF gene_id \in DOMAIN bound
                    THEN [p EXCEPT !.genes_set = @ \cup {bound[gene_id]}]
                    ELSE IF gene_id \in DOMAIN p.local
                    THEN [p EXCEPT !.genes_set = @ \cup {p.local[gene_id]}]
                    ELSE LET gene == Gene(FreshAddr(p.used), gene_id, gene_list[n].name)
                         IN [callers |-> p.callers, local |-> Put(p.local, gene_id, gene),
                             used |-> p.used \cup {gene.addr},
                             genes_set |-> p.genes_set \cup {gene}]
    IN f[Len(gene_list)]

\* A metabolite loop that renames the universal Metabolite it finds instead of
\* a copy of it.
MetaboliteLoopNoCopy(metabolite_list, callers, local, used) ==
    LET f[n \in 0..Len(metabolite_list)] ==
            IF n = 0 THEN [callers |-> callers, local |-> local, used |-> used,
                            stoichiometry |-> <<>>]
            ELSE LET p == f[n - 1]
                     metabolite_data == metabolite_list[n]
                     universal_metabolite_id == metabolite_data.bigg_id
                     metabolite_id ==
                         universal_metabolite_id \o US \o metabolite_data.compartment_bigg_id
                     bound == IF p.callers # <<>> THEN p.callers ELSE p.local
                 IN IF metabolite_id \in DOMAIN p.local
                    THEN [p EXCEPT !.stoichiometry =
                             SetCoefficient(@, p.local[metabolite_id],
                                            metabolite_data.stoichiometry)]
                    ELSE LET metabolite ==
                                 IF universal_metabolite_id \in DOMAIN bound
                                 THEN [bound[universal_metabolite_id] EXCEPT
                                          !.id = metabolite_id,
                                          !.compartment = metabolite_data.compartment_bigg_id]
                                 ELSE Metabolite(FreshAddr(p.used), metabolite_id,
                                                 metabolite_data.name,
                                                 metabolite_data.compartment_bigg_id)
                         IN [callers |-> IF universal_metabolite_id \in DOMAIN p.callers
                                         THEN [p.callers EXCEPT
                                                  ![universal_metabolite_id] = metabolite]
                                         ELSE p.callers,
                             local |-> Put(p.local, metabolite_id, metabolite),
                             used |-> p.used \cup {metabolite.addr},
                             stoichiometry |->
                                 SetCoefficient(p.stoichiometry, metabolite,
                                                metabolite_data.stoichiometry)]
    IN f[Len(metabolite_list)]

\* "if copy_number > 0": the reaction is copied and renamed.
\* The metabolite loop of _build_reaction (client.py:734-750).  A universal
\* Metabolite found in callers is copied and the copy is renamed
\* (client.py:741-744); callers itself is only read.
MetaboliteLoop(metabolite_list, callers, local, used) ==
    LET f[n \in 0..Len(metabolite_list)] ==
            IF n = 0 THEN [callers |-> callers, local |-> local, used |-> used,
                            stoichiometry |-> <<>>]
            ELSE LET p == f[n - 1]
                     metabolite_data == metabolite_list[n]
                     universal_metabolite_id == metabolite_data.bigg_id
                     metabolite_id ==
                         universal_metabolite_id \o US \o metabolite_data.compartment_bigg_id
                     bound == IF p.callers # <<>> THEN p.callers ELSE p.local
                 IN IF metabolite_id \in DOMAIN p.local
                    THEN [p EXCEPT !.stoichiometry =
                             SetCoefficient(@, p.local[metabolite_id],
                                            metabolite_data.stoichiometry)]
                    ELSE LET metabolite ==
                                 IF universal_metabolite_id \in DOMAIN bound
                                 THEN [bound[universal_metabolite_id] EXCEPT
                                          !.addr = FreshAddr(p.used),
                                          !.id = metabolite_id,
                                          !.compartment = metabolite_data.compartment_bigg_id]
                                 ELSE Metabolite(FreshAddr(p.used), metabolite_id,
                                                 metabolite_data.name,
                                                 metabolite_data.compartment_bigg_id)
                         IN [callers |-> p.callers,
                             local |-> Put(p.local, metabolite_id, metabolite),
                             used |-> p.used \cup {metabolite.addr},
                             stoichiometry |->
                                 SetCoefficient(p.stoichiometry, metabolite,
                                                metabolite_data.stoichiometry)]
    IN f[Len(metabolite_list)]

\* "if copy_number > 0": the reaction is copied and renamed.
IsCopy(copy_number) == copy_number > 0

\* _build_reaction(copy_data, reaction, copy_number, genes, _genes, metabolites,
\* _metabolites).  "_genes = _genes or {}" binds a new dict when the one passed
\* is None or empty, so the dict passed in is written only when it was
\* non-empty; the same holds for _metabolites.  Returns the reaction built,
\* the caller's dicts and the dicts passed in as the call leaves them, and the
\* addresses in use.
_build_reaction(copy_data, base, copy_number, genes_, _genes, metabolites_, _metabolites, used) ==
    LET copied == IsCopy(copy_number)
        r0 == IF copied
              THEN [ReactionCopy(base, used) EXCEPT
                       !.id = base.id \o US \o IntToStr(copy_data.copy_number)]
              ELSE base
        used0 == IF copied THEN used \cup CopyAddrs(base, used) ELSE used
        has_genes == "genes" \in DOMAIN copy_data
        g == IF has_genes THEN GeneLoop(copy_data.genes, genes_, _genes, used0)
             ELSE [callers |-> genes_, local |-> _genes, used |-> used0, genes_set |-> {}]
        r1 == IF has_genes
              THEN [r0 EXCEPT
                       !._genes = IF copy_data.genes # <<>> THEN g.genes_set ELSE @,
                       !._gene_reaction_rule = copy_data.gene_reaction_rule]
              ELSE IF "models_containing_reaction" \in DOMAIN copy_data
              THEN [r0 EXCEPT !.annotation.models_containing_reaction =
                       {[i \in DOMAIN copy_data.models_containing_reaction |->
                            copy_data.models_containing_reaction[i].bigg_id]}]
              ELSE r0
        has_metabolites == "metabolites" \in DOMAIN copy_data
        m == IF has_metabolites
             THEN MetaboliteLoop(copy_data.metabolites, metabolites_, _metabolites, g.used)
             ELSE [callers |-> metabolites_, local |-> _metabolites, used |-> g.used,
                   stoichiometry |-> <<>>]
        r2 == IF has_metabolites THEN AddMetabolites(r1, m.stoichiometry) ELSE r1
    IN [reaction |-> r2, genes |-> g.callers, metabolites |-> m.callers,
        _genes |-> IF _genes # <<>> THEN g.local ELSE _genes,
        _metabolites |-> IF _metabolites # <<>> THEN m.local ELSE _metabolites,
        used |-> m.used]

----------------------------------------------------------------------------
\* Accessors.  An argument is a str, the domain object the caller holds, or
\* something else (an int).

StrArg(id) == [kind |-> "str", id |-> id]
ObjArg(kind, id) == [kind |-> kind, id |-> id]
IntArg == [kind |-> "int", id |-> <<"4", "2">>]

\* A type test that lets every argument through.
IsInstanceOfAnything(arg, kinds) == TRUE

\* isinstance(x, Reaction) ... elif isinstance(x, str) ... else: raise ValueError
IsInstance(arg, kinds) == arg.kind \in kinds

TheReaction == CHOOSE r \in reaction : TRUE

Body(r) == CHOOSE j \in r.data : TRUE

\* list += ... on a list that a cached JSON value also holds changes that value.
ExtendShared(c, shared, maps) ==
    [i \in DOMAIN c |->
        IF c[i].key \in shared THEN [c[i] EXCEPT !.val.escher_maps = maps] ELSE c[i]]

Failure(op, arg, status, requests) ==
    [op |-> op, arg |-> arg, status |-> status, value |-> <<>>, requests |-> requests]

Success(op, arg, value, requests) ==
    [op |-> op, arg |-> arg, status |-> "ok", value |-> value, requests |-> requests]

\* get_reaction(reaction_or_id, metabolites, genes)
get_reaction(arg, net) ==
    /\ arg.kind = "Reaction" => reaction # {}
    /\ IF ~IsInstance(arg, {"Reaction", "str"})
       THEN /\ net = NoAnswer
            /\ result' = Failure("get_reaction", arg, "ValueError", <<>>)
            /\ UNCHANGED <<LRU_CACHE, reaction, genes, metabolites>>
       ELSE LET held == arg.kind = "Reaction"
                reaction_id == IF held THEN TheReaction.id ELSE arg.id
                t == Triple(REACTIONS, reaction_id, None)
                r == _get(LRU_CACHE, t, net)
            IN /\ Asks(LRU_CACHE, t, net)
               /\ LRU_CACHE' = r.cache
               /\ IF r.status # "ok"
                  THEN /\ result' = Failure("get_reaction", arg, r.status, r.requests)
                       /\ reaction' = Unshare(reaction, r.cache)
                       /\ UNCHANGED <<genes, metabolites>>
                  ELSE LET data == Body(r)
                           base == IF held THEN TheReaction
                                   ELSE Reaction(FreshAddr(Live), reaction_id, data.name)
                       IN \E b \in {_build_reaction(data, base, 0, genes, <<>>, metabolites,
                                                   <<>>, Live \cup {base.addr})} :
                          /\ result' = Success("get_reaction", arg,
                                               [reaction |-> b.reaction, held |-> held],
                                               r.requests)
                          /\ reaction' = Unshare(IF held THEN {b.reaction} ELSE reaction,
                                                 r.cache)
                          /\ genes' = b.genes
                          /\ metabolites' = b.metabolites
    /\ UNCHANGED <<hist, threads>>

\* The per-copy loop of get_model_reaction (client.py:448-452).  The copy
\* number handed to _build_reaction is data["copy_number"], the top-level key.
CopiesLoop(copies_data, base, copy_number, used) ==
    LET f[n \in 0..Len(copies_data)] ==
            IF n = 0
            THEN [base |-> base, copies |-> <<>>, genes |-> genes,
                  metabolites |-> metabolites, _genes |-> <<>>, _metabolites |-> <<>>,
                  used |-> used]
            ELSE LET p == f[n - 1]
                     b == _build_reaction(copies_data[n], p.base, copy_number, p.genes,
                                          p._genes, p.metabolites, p._metabolites, p.used)
                 IN [base |-> IF IsCopy(copy_number) THEN p.base ELSE b.reaction,
                     \* copies holds references: when the base itself is returned,
                     \* every entry so far is that one object
                     copies |-> IF IsCopy(copy_number) THEN Append(p.copies, b.reaction)
                                ELSE [i \in 1..n |-> b.reaction],
                     genes |-> b.genes, metabolites |-> b.metabolites,
                     _genes |-> b._genes, _metabolites |-> b._metabolites,
                     used |-> b.used]
    IN f[Len(copies_data)]

\* get_model_reaction(model_id, reaction_or_id, metabolites, genes)
get_model_reaction(model_id, arg, net) ==
    /\ arg.kind = "Reaction" => reaction # {}
    /\ IF ~IsInstance(arg, {"Reaction", "str"})
       THEN /\ net = NoAnswer
            /\ result' = Failure("get_model_reaction", arg, "ValueError", <<>>)
            /\ UNCHANGED <<LRU_CACHE, reaction, genes, metabolites>>
       ELSE LET held == arg.kind = "Reaction"
                reaction_id == IF held THEN TheReaction.id ELSE arg.id
                t == Triple(REACTIONS, reaction_id, model_id)
                r == _get(LRU_CACHE, t, net)
            IN IF ~Asks(LRU_CACHE, t, net) THEN FALSE
               ELSE IF r.status # "ok"
               THEN /\ LRU_CACHE' = r.cache
                    /\ result' = Failure("get_model_reaction", arg, r.status, r.requests)
                    /\ reaction' = Unshare(reaction, r.cache)
                    /\ UNCHANGED <<genes, metabolites>>
               ELSE LET data == Body(r)
                        new == IF held THEN CHOOSE x \in Unshare(reaction, r.cache) : TRUE
                               ELSE Reaction(FreshAddr(Live), reaction_id, data.name)
                        absent == new.annotation.escher_maps = {}
                        maps == IF absent THEN data.escher_maps
                                ELSE (CHOOSE l \in new.annotation.escher_maps : TRUE)
                                         \o data.escher_maps
                        shared == IF absent THEN {t} \cap Keys(r.cache)
                                  ELSE new.annotation.escher_shared
                        c == IF absent THEN r.cache ELSE ExtendShared(r.cache, shared, maps)
                        base == [new EXCEPT
                                    !.annotation.pseudoreaction = {data.pseudoreaction},
                                    !.annotation.escher_maps = {maps},
                                    !.annotation.escher_shared = shared,
                                    !.annotation.database_links = {data.database_links}]
                        copies_data == data.results
                        used == Live \cup {base.addr}
                    IN /\ Len(maps) <= MaxEscher
                       /\ LRU_CACHE' = c
                       /\ IF data.count = 1
                          THEN \E b \in {_build_reaction(copies_data[1], base, 0, genes, <<>>,
                                                         metabolites, <<>>, used)} :
                                  /\ result' = Success("get_model_reaction", arg,
                                          [reaction |-> b.reaction, copies |-> <<>>,
                                           held |-> held], r.requests)
                                  /\ reaction' = IF held THEN {b.reaction}
                                                 ELSE Unshare(reaction, c)
                                  /\ genes' = b.genes
                                  /\ metabolites' = b.metabolites
                          ELSE IF copies_data # <<>> /\ "copy_number" \notin DOMAIN data
                          THEN /\ result' = Failure("get_model_reaction", arg, "KeyError",
                                                    r.requests)
                               /\ reaction' = IF held THEN {base} ELSE Unshare(reaction, c)
                               /\ UNCHANGED <<genes, metabolites>>
                          ELSE \E l \in {CopiesLoop(copies_data, base,
                                            IF copies_data # <<>> THEN data.copy_number ELSE 0,
                                            used)} :
                                  /\ result' = Success("get_model_reaction", arg,
                                          [reaction |-> l.base, copies |-> l.copies,
                                           held |-> held], r.requests)
                                  /\ reaction' = IF held THEN {l.base} ELSE Unshare(reaction, c)
                                  /\ genes' = l.genes
                                  /\ metabolites' = l.metabolites
    /\ UNCHANGED <<hist, threads>>

\* METABOLITE_COMPARTMENT_REGEX = "^(.+)(_[a-z])$" (identifiers hold no newline):
\* at least one character, an underscore, one lowercase letter.
RegexMatch(id) ==
    /\ Len(id) >= 3
    /\ id[Len(id) - 1] = "_"
    /\ id[Len(id)] \in LowerCase

Group1(id) == SubSeq(id, 1, Len(id) - 2)

\* The species loop of get_metabolite (client.py:570-580).
SpeciesLoop(compartments, metabolite, used) ==
    LET f[n \in 0..Len(compartments)] ==
            IF n = 0 THEN [species |-> <<>>, used |-> used]
            ELSE LET p == f[n - 1]
                     compartment_id == compartments[n].bigg_id
                     known == compartment_id \in DOMAIN p.species
                     metabolite_copy ==
                         IF known THEN p.species[compartment_id]
                         ELSE [metabolite EXCEPT
                                  !.addr = FreshAddr(p.used),
                                  !.id = metabolite.id \o US \o compartment_id,
                                  !.compartment = compartment_id]
                     models == CHOOSE ms \in metabolite_copy.annotation.models : TRUE
                 IN [species |-> Put(p.species, compartment_id,
                         [metabolite_copy EXCEPT !.annotation.models =
                             {models \cup {compartments[n].model_bigg_id}}]),
                     used |-> p.used \cup {metabolite_copy.addr}]
    IN f[Len(compartments)]

\* get_metabolite(metabolite_or_id).  net is the outcome of the request for the
\* derived identifier, again that of the request for the literal one.
get_metabolite(arg, net, again) ==
    /\ IF ~IsInstance(arg, {"Metabolite", "str"})
       THEN /\ net = NoAnswer /\ again = NoAnswer
            /\ result' = Failure("get_metabolite", arg, "ValueError", <<>>)
            /\ UNCHANGED <<LRU_CACHE, reaction>>
       ELSE LET metabolite_id == arg.id
                universal_metabolite_id ==
                    IF RegexMatch(metabolite_id) THEN Group1(metabolite_id)
                    ELSE metabolite_id
                derived == Triple(METABOLITES, universal_metabolite_id, None)
                literal == Triple(METABOLITES, metabolite_id, None)
                first == _get(LRU_CACHE, derived, net)
                second == _get(first.cache, literal, again)
            IN /\ Asks(LRU_CACHE, derived, net)
               /\ IF first.status = "ok" THEN again = NoAnswer
                  ELSE Asks(first.cache, literal, again)
               /\ \E r \in {IF first.status = "ok" THEN first
                            ELSE [second EXCEPT
                                     !.requests = first.requests \o second.requests]} :
                  /\ LRU_CACHE' = r.cache
                  /\ reaction' = Unshare(reaction, r.cache)
                  /\ IF r.status # "ok"
                     THEN result' = Failure("get_metabolite", arg, r.status, r.requests)
                     ELSE LET data == Body(r)
                              addr == FreshAddr(Live)
                              plain == Metabolite(addr, metabolite_id, data.name, None)
                              metabolite ==
                                  [plain EXCEPT
                                      !.charge = IF data.charges # <<>>
                                                 THEN {data.charges[1]} ELSE @,
                                      !.formula = IF data.formulae # <<>>
                                                  THEN {data.formulae[1]} ELSE @,
                                      !.annotation.charges = {data.charges},
                                      !.annotation.formulae = {data.formulae},
                                      !.annotation.database_links = {data.database_links},
                                      !.annotation.models = {{}}]
                          IN result' = Success("get_metabolite", arg,
                                 [metabolite |-> metabolite,
                                  species |-> SpeciesLoop(data.compartments_in_models,
                                                  metabolite, Live \cup {addr}).species],
                                 r.requests)
    /\ UNCHANGED <<genes, metabolites, hist, threads>>

\* get_model_metabolite(model_id, metabolite_id): no argument check.
get_model_metabolite(model_id, metabolite_id, net) ==
    LET r == _get(LRU_CACHE, Triple(METABOLITES, metabolite_id, model_id), net) IN
    /\ Asks(LRU_CACHE, Triple(METABOLITES, metabolite_id, model_id), net)
    /\ LRU_CACHE' = r.cache
    /\ reaction' = Unshare(reaction, r.cache)
    /\ IF r.status # "ok"
       THEN result' = Failure("get_model_metabolite", StrArg(metabolite_id), r.status, r.requests)
       ELSE LET data == Body(r)
                plain == Metabolite(FreshAddr(Live), metabolite_id, None,
                                    data.compartment_bigg_id)
            IN result' = Success("get_model_metabolite", StrArg(metabolite_id),
                   [metabolite |-> [plain EXCEPT
                        !.charge = {data.charge}, !.formula = {data.formula},
                        !.annotation.database_links = {data.database_links}]],
                   r.requests)
    /\ UNCHANGED <<genes, metabolites, hist, threads>>

\* get_model_gene(model_id, gene_or_id)
get_model_gene(model_id, arg, net) ==
    /\ IF ~IsInstance(arg, {"Gene", "str"})
       THEN /\ net = NoAnswer
            /\ result' = Failure("get_model_gene", arg, "ValueError", <<>>)
            /\ UNCHANGED <<LRU_CACHE, reaction>>
       ELSE LET gene_id == arg.id
                r == _get(LRU_CACHE, Triple(GENES, gene_id, model_id), net)
            IN /\ Asks(LRU_CACHE, Triple(GENES, gene_id, model_id), net)
               /\ LRU_CACHE' = r.cache
               /\ reaction' = Unshare(reaction, r.cache)
               /\ IF r.status # "ok"
                  THEN result' = Failure("get_model_gene", arg, r.status, r.requests)
                  ELSE LET data == Body(r)
                           gene == Gene(FreshAddr(Live), gene_id, data.name)
                       IN result' = Success("get_model_gene", arg,
                              [gene |-> [gene EXCEPT
                                   !.annotation.database_links = {data.database_links},
                                   !.annotation.protein_sequence = {data.protein_sequence}]],
                              r.requests)
    /\ UNCHANGED <<genes, metabolites, hist, threads>>

----------------------------------------------------------------------------
\* A session of listing calls.  The network answers a collection request with an
\* error or with any result list of at most MaxResults records; the records
\* include two with the same identifier and different names.

R2 == <<"R", "2">>
ATP == <<"a", "t", "p">>
ADP == <<"a", "d", "p">>
C == <<"c">>
E == <<"e">>
G1 == <<"b", "1">>
G2 == <<"b", "2">>

SeqsUpTo(S, n) == UNION {[1..k -> S] : k \in 0..n}

Collection(S) ==
    {[results_count |-> Len(rs), results |-> rs] : rs \in SeqsUpTo(S, MaxResults)}

ReactionRecords ==
    { [bigg_id |-> R1, name |-> "n1"], [bigg_id |-> R1, name |-> "n2"],
      [bigg_id |-> R2, name |-> "n1"] }

MetaboliteRecords ==
    { [bigg_id |-> ATP, name |-> "n1"], [bigg_id |-> ATP, name |-> "n2"],
      [bigg_id |-> ADP, name |-> "n1"] }

ModelMetaboliteRecords ==
    { [bigg_id |-> ATP, compartment_bigg_id |-> C, name |-> "n1"],
      [bigg_id |-> ATP, compartment_bigg_id |-> C, name |-> "n2"],
      [bigg_id |-> ATP, compartment_bigg_id |-> E, name |-> "n1"] }

GeneRecords ==
    { [bigg_id |-> G1, name |-> "n1", organism |-> "o1"],
      [bigg_id |-> G1, name |-> "n2", organism |-> "o1"],
      [bigg_id |-> G2, name |-> "n1", organism |-> "o1"] }

Answers(S) == {NoAnswer, HTTPError(404)} \cup {OK(b) : b \in Collection(S)}

NextList ==
    \/ \E net \in Answers(ReactionRecords) : list_reactions(net)
    \/ \E net \in Answers(ReactionRecords) : list_model_reactions(M1, net)
    \/ \E net \in Answers(MetaboliteRecords) : list_metabolites(net)
    \/ \E net \in Answers(ModelMetaboliteRecords) : list_model_metabolites(M1, net)
    \/ \E net \in Answers(GeneRecords) : list_model_genes(M1, net)

SpecList == InitModule /\ [][NextList]_vars

\* The identifier a listing operation derives from a record.
DerivedId(op, rec) ==
    IF op = "list_model_metabolites"
    THEN rec.bigg_id \o US \o rec.compartment_bigg_id
    ELSE rec.bigg_id

ListOps ==
    {"list_reactions", "list_model_reactions", "list_metabolites",
     "list_model_metabolites", "list_model_genes"}

\* The collection the last listing call worked on (it is in the cache after a
\* successful _get).
ListTriple(op) ==
    CASE op = "list_reactions" -> Triple(REACTIONS, None, None)
      [] op = "list_model_reactions" -> Triple(REACTIONS, None, M1)
      [] op = "list_metabolites" -> Triple(METABOLITES, None, None)
      [] op = "list_model_metabolites" -> Triple(METABOLITES, None, M1)
      [] op = "list_model_genes" -> Triple(GENES, None, M1)

ListedData(op) == LRU_CACHE[Value(LRU_CACHE, ListTriple(op))].val.results

FirstIndex(op, rs, id) == CHOOSE i \in DOMAIN rs :
    /\ DerivedId(op, rs[i]) = id
    /\ \A j \in 1..(i - 1) : DerivedId(op, rs[j]) # id

HasDuplicates(op, rs) ==
    \E i, j \in DOMAIN rs : i # j /\ DerivedId(op, rs[i]) = DerivedId(op, rs[j])

\* What C1 asks of a listing call whose fetch succeeded: it returns, the
\* identifiers are pairwise distinct, every derived identifier is listed, and
\* each entity is built from the first record carrying its identifier.
FirstWins(op, rs, value) ==
    /\ \A i, j \in DOMAIN value : value[i].id = value[j].id => i = j
    /\ {value[i].id : i \in DOMAIN value} = {DerivedId(op, rs[i]) : i \in DOMAIN rs}
    /\ \A i \in DOMAIN value :
           value[i].name = rs[FirstIndex(op, rs, value[i].id)].name

Fetched == result.status # "HTTPError"

\* C1: every listing call whose fetch succeeded returns normally with pairwise
\* distinct identifiers, each entity built from the first record carrying it.
C1_ListingDistinct ==
    (result.op \in ListOps /\ Fetched /\ maxsize >= 1)
        => /\ result.status = "ok"
           /\ FirstWins(result.op, ListedData(result.op), result.value)

----------------------------------------------------------------------------
\* A session of reaction lookups.  The caller holds one Reaction (a stub, as
\* list_model_reactions returns it) and passes either it or its identifier; the
\* caller-supplied caches are empty or hold one universal entry each.

\* most copies of a reaction in one model
MaxCopies == 2

Stub == Reaction(1, R1, "n1")

GeneCaches == {<<>>, Put(<<>>, G1, Gene(2, G1, "g1"))}

MetaboliteCaches == {<<>>, Put(<<>>, ATP, Metabolite(3, ATP, "ATP", None))}

Met(bigg_id, compartment, coefficient) ==
    [bigg_id |-> bigg_id, compartment_bigg_id |-> compartment, name |-> "m",
     stoichiometry |-> coefficient]

MetaboliteLists ==
    { <<Met(ATP, C, -1), Met(ADP, C, 1)>>, <<Met(ATP, C, -2)>>,
      <<Met(ATP, C, -1), Met(ATP, C, 3)>> }

GeneRef(id) == [bigg_id |-> id, name |-> "g"]

\* no gene, one gene, two genes of which one is listed twice
GeneLists == { <<>>, <<GeneRef(G1)>>, <<GeneRef(G1), GeneRef(G2), GeneRef(G1)>> }

UniversalReactions ==
    { [name |-> "n1", pseudoreaction |-> FALSE, database_links |-> "links",
       metabolites |-> ml, models_containing_reaction |-> <<[bigg_id |-> M1]>>]
      : ml \in MetaboliteLists }

\* A copy record; the declared copy numbers start at first.
CopyRecord(n, gl, ml) ==
    [copy_number |-> n, genes |-> gl, gene_reaction_rule |-> "rule", metabolites |-> ml]

ModelReaction(results, maps) ==
    [name |-> "n1", count |-> Len(results), pseudoreaction |-> FALSE,
     escher_maps |-> maps, database_links |-> "links", results |-> results]

WithCopyNumber(json, n) ==
    [k \in DOMAIN json \cup {"copy_number"} |-> IF k = "copy_number" THEN n ELSE json[k]]

EscherMaps == { <<>>, <<"map1">> }

SingleCopy ==
    { ModelReaction(<<CopyRecord(1, gl, ml)>>, maps)
      : gl \in GeneLists, ml \in MetaboliteLists, maps \in EscherMaps }

\* Several copies: every copy lists the same genes and metabolites; the declared
\* numbers are first, first + 1, ...; the top-level copy_number key is absent
\* or present.
Copies(k, first, gl, ml) == [i \in 1..k |-> CopyRecord(first + i - 1, gl, ml)]

SeveralCopiesBare ==
    { ModelReaction(Copies(k, first, gl, <<Met(ATP, C, -2)>>), <<"map1">>)
      : k \in 2..MaxCopies, first \in {1, 2}, gl \in GeneLists \ {<<>>} }

SeveralCopies ==
    SeveralCopiesBare \cup {WithCopyNumber(j, n) : j \in SeveralCopiesBare, n \in {0, 1}}

ReactionArgs == {StrArg(R1), ObjArg("Reaction", None), IntArg}

InitReaction ==
    /\ LRU_CACHE = <<>>
    /\ reaction = {Stub}
    /\ genes \in GeneCaches
    /\ metabolites \in MetaboliteCaches
    /\ result = NoResult
    /\ hist = NoHistory
    /\ threads = NoCalls

NextReaction ==
    \/ \E arg \in ReactionArgs,
          net \in {NoAnswer, HTTPError(404)} \cup {OK(j) : j \in UniversalReactions} :
              get_reaction(arg, net)
    \/ \E arg \in ReactionArgs,
          net \in {NoAnswer, HTTPError(404)}
                      \cup {OK(j) : j \in SingleCopy \cup SeveralCopies} :
              get_model_reaction(M1, arg, net)

SpecReaction == InitReaction /\ [][NextReaction]_vars

----------------------------------------------------------------------------
\* A session over the whole public surface: every list_* and get_* operation,
\* each answered with an error or with one of a few JSON values.

ATP_C == ATP \o US \o C

UniversalMetabolites ==
    { [name |-> "ATP", charges |-> charges, formulae |-> <<"C10H12N5O13P3">>,
       database_links |-> "links",
       compartments_in_models |->
           <<[bigg_id |-> C, model_bigg_id |-> M1], [bigg_id |-> E, model_bigg_id |-> M1],
             [bigg_id |-> C, model_bigg_id |-> R1]>>]
      : charges \in {<<>>, <<-4>>} }

ModelMetabolites ==
    { [charge |-> -4, formula |-> "C10H12N5O13P3", compartment_bigg_id |-> C,
       database_links |-> "links"] }

ModelGenes ==
    { [name |-> "g1", database_links |-> "links", protein_sequence |-> "MKV"] }

Outcomes(jsons) == {NoAnswer, HTTPError(404)} \cup {OK(j) : j \in jsons}

\* One collection per listing operation, with a repeated record.
Twice(rec) == {[results_count |-> 2, results |-> <<rec, rec>>]}

MetaboliteArgs == {StrArg(ATP), StrArg(ATP_C), ObjArg("Metabolite", ATP_C), IntArg}

GeneArgs == {StrArg(G1), ObjArg("Gene", G1), IntArg}

Init ==
    /\ LRU_CACHE = <<>>
    /\ reaction = {Stub}
    /\ genes = <<>>
    /\ metabolites = <<>>
    /\ result = NoResult
    /\ hist = NoHistory
    /\ threads = NoCalls

Next ==
    \/ \E net \in Outcomes(Twice([bigg_id |-> R1, name |-> "n1"])) : list_reactions(net)
    \/ \E net \in Outcomes(Twice([bigg_id |-> R1, name |-> "n1"])) :
           list_model_reactions(M1, net)
    \/ \E net \in Outcomes(Twice([bigg_id |-> ADP, name |-> "n1"])) : list_metabolites(net)
    \/ \E net \in Outcomes(Twice([bigg_id |-> ATP, compartment_bigg_id |-> C,
                                  name |-> "n1"])) :
           list_model_metabolites(M1, net)
    \/ \E net \in Outcomes(Twice([bigg_id |-> G1, name |-> "n1", organism |-> "o1"])) :
           list_model_genes(M1, net)
    \/ \E arg \in ReactionArgs,
          net \in Outcomes({j \in UniversalReactions : Len(j.metabolites) = 1}) :
              get_reaction(arg, net)
    \/ \E arg \in {StrArg(R1), IntArg},
          net \in Outcomes({j \in SingleCopy : /\ Len(j.results[1].genes) = 1
                                               /\ Len(j.results[1].metabolites) = 1
                                               /\ j.escher_maps = <<>>}) :
              get_model_reaction(M1, arg, net)
    \/ \E arg \in MetaboliteArgs,
          net, again \in Outcomes({j \in UniversalMetabolites : j.charges # <<>>}) :
           get_metabolite(arg, net, again)
    \/ \E net \in Outcomes(ModelMetabolites) : get_model_metabolite(M1, ATP_C, net)
    \/ \E arg \in GeneArgs, net \in Outcomes(ModelGenes) : get_model_gene(M1, arg, net)

Spec == Init /\ [][Next]_vars

----------------------------------------------------------------------------
\* Claims about the accessors and about error propagation.

ArgOps == {"get_reaction", "get_model_reaction", "get_metabolite", "get_model_gene"}

GetOps == ArgOps \cup {"get_model_metabolite"}

Expected(op) ==
    CASE op = "get_reaction" -> {"Reaction", "str"}
      [] op = "get_model_reaction" -> {"Reaction", "str"}
      [] op = "get_metabolite" -> {"Metabolite", "str"}
      [] op = "get_model_gene" -> {"Gene", "str"}

\* One call with an argument of an unexpected type.
C2_Step ==
    (result'.op \in ArgOps /\ result'.arg.kind \notin Expected(result'.op))
        => /\ result'.status = "ValueError"
           /\ result'.requests = <<>>
           /\ LRU_CACHE' = LRU_CACHE

\* C2: a call of get_reaction, get_model_reaction, get_metabolite or
\* get_model_gene with an argument that is neither a str nor the expected domain
\* object raises ValueError, issues no request and leaves the cache as it was.
C2_InvalidArgument == [][C2_Step]_vars

\* C2 witness: an int was rejected while the cache held entries.
C2_Witness ==
    /\ result.op \in ArgOps
    /\ result.arg.kind = "int"
    /\ result.status = "ValueError"
    /\ Len(LRU_CACHE) = maxsize

FailedAt(i) == RaisesForStatus(result.requests[i].status)

C10_UniversalIdentifier ==
    (result.op = "get_metabolite" /\ result.status = "ok"
        /\ Len(result.requests) <= 1 /\ result.arg.id \in {ATP, ATP_C})
        => result.value.metabolite.id = ATP

----------------------------------------------------------------------------
\* Claims about get_model_reaction and the assembler.

ModelTriple == Triple(REACTIONS, R1, M1)

\* The JSON the last get_model_reaction call worked on.
ModelData == LRU_CACHE[Value(LRU_CACHE, ModelTriple)].val

Assembled ==
    /\ result.op = "get_model_reaction"
    /\ result.status \notin {"HTTPError", "ValueError"}

CompartmentalId(m) == m.bigg_id \o US \o m.compartment_bigg_id

\* One get_model_reaction call on a record with several copies.
C6_Step ==
    (Assembled' /\ ModelData'.count > 1)
        => /\ result'.status = "ok"
           /\ LET v == result'.value
                  rs == ModelData'.results
              IN /\ Len(v.copies) = ModelData'.count
                 /\ \A i \in DOMAIN v.copies :
                        /\ v.copies[i].id = R1 \o US \o IntToStr(rs[i].copy_number)
                        /\ v.copies[i].addr # v.reaction.addr
                        /\ \A j \in DOMAIN v.copies :
                               v.copies[i].addr = v.copies[j].addr => i = j
                 /\ v.reaction.id = R1
                 /\ v.reaction._metabolites =
                        IF v.held THEN TheReaction._metabolites ELSE {}

\* C6 as claimed: with count = N > 1 the call returns N copies, one per copy
\* record, each a distinct Reaction named <base id>_<the record's copy_number>,
\* and a base reaction with the base identifier and no stoichiometry attached.
C6_CopyVariants == [][C6_Step]_vars

\* r holds the genes, the rule and the coefficients of the copy record rec (of
\* two entries for one metabolite, the later one).
Populated(r, rec) ==
    /\ rec.genes # <<>>
           => {g.id : g \in r._genes} = {rec.genes[i].bigg_id : i \in DOMAIN rec.genes}
    /\ r._gene_reaction_rule = rec.gene_reaction_rule
    /\ \A i \in DOMAIN rec.metabolites :
           (\A j \in DOMAIN rec.metabolites :
                j > i => CompartmentalId(rec.metabolites[j])
                             # CompartmentalId(rec.metabolites[i]))
               => \E e \in r._metabolites :
                      /\ e.met.id = CompartmentalId(rec.metabolites[i])
                      /\ e.coef = rec.metabolites[i].stoichiometry

\* One get_model_reaction call on a record with a single copy.
C7_Step ==
    (Assembled' /\ ModelData'.count = 1)
        => /\ result'.status = "ok"
           /\ LET v == result'.value IN
              /\ v.copies = <<>>
              /\ v.reaction.id = R1
              /\ v.reaction.name = IF v.held THEN TheReaction.name ELSE ModelData'.name
              /\ v.held => v.reaction.addr = TheReaction.addr /\ reaction' = {v.reaction}
              /\ Populated(v.reaction, ModelData'.results[1])

\* C7: with count = 1 the call returns the base reaction itself (the caller's
\* object when one was passed), identifier and name unchanged, holding the
\* genes, the rule and the coefficients of the one copy record, and no copies.
C7_SingleCopy == [][C7_Step]_vars

\* C7 witness: the caller's Reaction came back populated from a single copy
\* record that lists genes.
C7_Witness ==
    /\ Assembled
    /\ result.status = "ok"
    /\ result.value.held
    /\ ModelData.count = 1
    /\ result.value.reaction._genes # {}
    /\ result.value.reaction._metabolites # {}

\* C8 as claimed: two copies assembled with the same caller-supplied gene cache
\* hold the very same Gene instance for a gene identifier they share.
C8_SharedGeneInstance ==
    (Assembled /\ result.status = "ok")
        => \A i, j \in DOMAIN result.value.copies :
               \A gi \in result.value.copies[i]._genes :
                   \A gj \in result.value.copies[j]._genes :
                       gi.id = gj.id => gi.addr = gj.addr

\* C9 as claimed: a Reaction populated by get_reaction and then rebuilt from a
\* single-copy model record has exactly the metabolite identifiers of that
\* record, each with a coefficient of the record.
C9_RoundTrip ==
    (Assembled /\ result.status = "ok" /\ result.value.held /\ ModelData.count = 1
        /\ result.value.reaction.annotation.models_containing_reaction # {})
        => LET ms == ModelData.results[1].metabolites
               st == result.value.reaction._metabolites
           IN /\ {e.met.id : e \in st} = {CompartmentalId(ms[i]) : i \in DOMAIN ms}
              /\ \A e \in st : \E i \in DOMAIN ms :
                     /\ CompartmentalId(ms[i]) = e.met.id
                     /\ ms[i].stoichiometry = e.coef

----------------------------------------------------------------------------
\* Claims about the fetcher.

KeySeq(c) == [i \in DOMAIN c |-> c[i].key]

LastN(s, n) == IF Len(s) <= n THEN s ELSE SubSeq(s, Len(s) - n + 1, Len(s))

\* While every _get call has succeeded and at most maxsize distinct triples
\* have been asked for, each triple asked for has been requested exactly once.
C4_Counts ==
    (~hist.failed /\ Cardinality(hist.called) <= maxsize)
        => /\ hist.repeated = {}
           /\ hist.requested = hist.called

\* A later call with an equal triple issues no request and returns the stored JSON.
C4_Memoized ==
    \A t \in FetchKeys :
        (~hist.failed /\ Cardinality(hist.called) <= maxsize /\ t \in hist.called
            /\ Fetch(t, NoAnswer))
            => /\ result'.requests = <<>>
               /\ result'.value = {LRU_CACHE[Value(LRU_CACHE, t)].val}

\* C4: while every _get call has succeeded and at most maxsize distinct triples
\* have been asked for, each triple asked for has been requested from the network
\* exactly once: the first call performs the request, and every later call with
\* an equal triple returns the memoized JSON without a request.
C4_OneRequestPerTriple == []C4_Counts /\ [][C4_Memoized]_vars

\* C4 witness: a triple was asked for again after its first, successful call and
\* was answered from the cache.
C4_Witness ==
    /\ ~hist.failed
    /\ Cardinality(hist.called) = maxsize
    /\ result.op = "_get"
    /\ result.requests = <<>>
    /\ result.status = "ok"

\* The cache never holds more than maxsize entries.
C5_Bounded == Len(LRU_CACHE) <= maxsize

\* The cache holds exactly the maxsize most recently used triples, oldest first.
C5_StrictLRU ==
    /\ C5_Bounded
    /\ KeySeq(LRU_CACHE) = LastN(hist.recency, maxsize)

\* A _get for a triple that is not in the cache asks the network.
C5_MissRequests ==
    \A t \in FetchKeys, net \in FetchOutcomes :
        (Fetch(t, net) /\ t \notin Keys(LRU_CACHE))
            => /\ result'.requests = <<Request(t, net)>>
               /\ result'.value = net.json

\* C5: the cache never holds more than maxsize entries; it holds exactly the
\* maxsize most recently used triples (a hit and an insert are both a use), so the
\* entry a full cache drops is the least recently used one; and a _get for a
\* triple that is not in the cache (an evicted one included) performs a new
\* network request and returns what the network answers.
C5_LruEviction == []C5_StrictLRU /\ [][C5_MissRequests]_vars

\* C5 witness: a triple that was used and then evicted from the full cache has
\* just been fetched again, with a new request.
C5_Witness ==
    /\ result.op = "_get"
    /\ result.status = "ok"
    /\ result.requests # <<>>
    /\ result.args \in hist.repeated
    /\ Len(hist.recency) > maxsize
    /\ ~hist.failed

----------------------------------------------------------------------------
\* A session of universal metabolite lookups: identifiers without a suffix,
\* with a one-letter and with a two-letter compartment suffix, each request
\* answered with 404, with 500 or with a metabolite.

ATP_IM == ATP \o US \o <<"i", "m">>

SuffixArgs ==
    {StrArg(ATP), StrArg(ATP_C), StrArg(ATP_IM), ObjArg("Metabolite", ATP_IM), IntArg}

MetaboliteOutcomes ==
    {NoAnswer, HTTPError(404), HTTPError(500)}
        \cup {OK(j) : j \in UniversalMetabolites}

NextMetabolite ==
    \E arg \in SuffixArgs, net, again \in MetaboliteOutcomes : get_metabolite(arg, net, again)

SpecMetabolite == InitModule /\ [][NextMetabolite]_vars

\* The identifier with a trailing "_" plus one or two lowercase letters removed.
StripCompartment(id) ==
    IF Len(id) >= 3 /\ id[Len(id) - 1] = "_" /\ id[Len(id)] \in LowerCase
    THEN SubSeq(id, 1, Len(id) - 2)
    ELSE IF /\ Len(id) >= 4
            /\ id[Len(id) - 2] = "_"
            /\ id[Len(id) - 1] \in LowerCase
            /\ id[Len(id)] \in LowerCase
    THEN SubSeq(id, 1, Len(id) - 3)
    ELSE id

\* C11 as claimed: the identifier get_metabolite asks for first is its argument
\* with a trailing one- or two-letter compartment suffix removed ("atp_c" and
\* "atp_im" both give "atp"), and the argument itself when it has no such suffix.
C11_DerivedIdentifier ==
    (result.op = "get_metabolite" /\ result.requests # <<>>)
        => result.requests[1].key = Triple(METABOLITES, StripCompartment(result.arg.id), None)

\* C12 as claimed: get_metabolite makes at most two requests; the second one is
\* for the literal identifier and is made only after the first one failed with
\* 404; a first failure with another status, and a failure of the second
\* request, are raised to the caller.
C12_Fallback ==
    (result.op = "get_metabolite" /\ result.requests # <<>>)
        => /\ Len(result.requests) <= 2
           /\ Len(result.requests) = 2
                  => /\ result.requests[1].status = 404
                     /\ result.requests[2].key = Triple(METABOLITES, result.arg.id, None)
           /\ (FailedAt(1) /\ result.requests[1].status # 404)
                  => /\ result.status = "HTTPError"
                     /\ Len(result.requests) = 1
           /\ (Len(result.requests) = 2 /\ FailedAt(2)) => result.status = "HTTPError"

----------------------------------------------------------------------------
\* Claims about instances and coefficients in an assembled reaction.

\* r holds one Gene instance per gene identifier and one stoichiometry entry,
\* so one Metabolite instance, per metabolite identifier.
OnePerId(r) ==
    /\ \A g1, g2 \in r._genes : g1.id = g2.id => g1 = g2
    /\ \A e1, e2 \in r._metabolites : e1.met.id = e2.met.id => e1 = e2

RepeatsGene(s) == \E i, j \in DOMAIN s : i # j /\ s[i].bigg_id = s[j].bigg_id

RepeatsMetabolite(s) ==
    \E i, j \in DOMAIN s : i # j /\ CompartmentalId(s[i]) = CompartmentalId(s[j])

\* C13: every reaction a get_reaction or get_model_reaction call assembles (the
\* base and each copy) holds at most one Gene instance per gene identifier and
\* at most one Metabolite instance per metabolite identifier, also when the
\* record lists a gene or a metabolite/compartment pair several times.
C13_OneInstancePerId ==
    (result.op \in {"get_reaction", "get_model_reaction"} /\ result.status = "ok")
        => /\ OnePerId(result.value.reaction)
           /\ result.op = "get_model_reaction"
                  => \A i \in DOMAIN result.value.copies : OnePerId(result.value.copies[i])

\* C13 witness: a single-copy record that lists a gene twice and a
\* metabolite/compartment pair twice was assembled with an empty gene cache.
C13_Witness ==
    /\ Assembled
    /\ result.status = "ok"
    /\ genes = <<>>
    /\ ModelData.count = 1
    /\ RepeatsGene(ModelData.results[1].genes)
    /\ RepeatsMetabolite(ModelData.results[1].metabolites)

\* The coefficients r holds are those of rec: for every metabolite rec lists,
\* the coefficient of its last entry.
Replaced(r, rec) ==
    \A i \in DOMAIN rec.metabolites :
        (\A j \in DOMAIN rec.metabolites :
             j > i => CompartmentalId(rec.metabolites[j]) # CompartmentalId(rec.metabolites[i]))
            => \A e \in r._metabolites :
                   e.met.id = CompartmentalId(rec.metabolites[i])
                       => e.coef = rec.metabolites[i].stoichiometry

UniversalTriple == Triple(REACTIONS, R1, None)

\* The JSON the last get_reaction call worked on.
UniversalData == LRU_CACHE[Value(LRU_CACHE, UniversalTriple)].val

BuiltUniversal == result.op = "get_reaction" /\ result.status = "ok"

C14_Coefficients ==
    /\ BuiltUniversal => Replaced(result.value.reaction, UniversalData)
    /\ (Assembled /\ result.status = "ok")
           => /\ ModelData.count = 1 => Replaced(result.value.reaction, ModelData.results[1])
              /\ \A i \in DOMAIN result.value.copies :
                     Replaced(result.value.copies[i], ModelData.results[i])

\* get_reaction on the caller's Reaction, answered from the cache, right after
\* a get_reaction on that Reaction.
C14_Twice ==
    (/\ BuiltUniversal /\ result.value.held
     /\ BuiltUniversal' /\ result'.value.held /\ result'.requests = <<>>)
        => result'.value.reaction._metabolites = result.value.reaction._metabolites

\* C14: after _build_reaction every metabolite the record lists has the
\* record's coefficient (that of its last entry when it is listed repeatedly),
\* never a sum with the coefficient the reaction had before; and a second
\* get_reaction on the same Reaction leaves the stoichiometry of the first.
C14_ReplaceSemantics == []C14_Coefficients /\ [][C14_Twice]_vars

\* C14 witness: get_reaction rebuilt the caller's Reaction, which an earlier
\* get_model_reaction had populated (it carries escher maps), from a record
\* that lists a metabolite twice; the reaction had a coefficient for it before.
C14_Witness ==
    /\ BuiltUniversal
    /\ result.value.held
    /\ result.value.reaction.annotation.escher_maps # {}
    /\ RepeatsMetabolite(UniversalData.metabolites)
    /\ \E e \in result.value.reaction._metabolites : e.met.id = ATP_C

----------------------------------------------------------------------------
\* Claims about what a call leaves behind.

\* Every key of the mapping before is a key after and bound to the same instance.
KeepsEntries(before, after) ==
    \A k \in DOMAIN before : k \in DOMAIN after /\ after[k].addr = before[k].addr

C15_Step ==
    (result'.op \in {"get_reaction", "get_model_reaction"})
        => /\ KeepsEntries(genes, genes')
           /\ KeepsEntries(metabolites, metabolites')
           /\ \A k \in DOMAIN metabolites :
                  /\ metabolites'[k].id = metabolites[k].id
                  /\ metabolites'[k].compartment = metabolites[k].compartment

\* C15: no get_reaction or get_model_reaction call removes or rebinds a key of
\* the caller's genes or metabolites mapping, and a universal Metabolite of the
\* caller's mapping keeps its identifier and compartment: the assembler renames
\* a copy of it.
C15_CallerCaches == [][C15_Step]_vars

\* C15 witness: a reaction was assembled from the caller's mappings; it holds
\* the caller's Gene and a renamed copy of the caller's universal Metabolite.
C15_Witness ==
    /\ result.op \in {"get_reaction", "get_model_reaction"}
    /\ result.status = "ok"
    /\ ATP \in DOMAIN metabolites
    /\ G1 \in DOMAIN genes
    /\ genes[G1] \in result.value.reaction._genes
    /\ \E e \in result.value.reaction._metabolites :
           /\ e.met.id = ATP_C
           /\ e.met.name = metabolites[ATP].name
           /\ e.met.addr # metabolites[ATP].addr

\* C16 as claimed: at no time are two threads both inside a lookup or an
\* insert on the shared response cache.
C16_MutualExclusion ==
    \A a, b \in Threads :
        (threads[a].pc \in InCache /\ threads[b].pc \in InCache) => a = b

C17_Step ==
    \A k \in Keys(LRU_CACHE) \cap Keys(LRU_CACHE') :
        LRU_CACHE'[Value(LRU_CACHE', k)].val = LRU_CACHE[Value(LRU_CACHE, k)].val

\* C17 as claimed: no call changes a JSON value that is in the response cache,
\* so a hit returns what the network answered when the value was stored.
C17_CachedValuesFrozen == [][C17_Step]_vars

ReactionOps == {"get_reaction", "get_model_reaction"}

\* A get_reaction or get_model_reaction call whose fetch failed.
C18_Failed ==
    (result'.op \in ReactionOps /\ result'.status = "HTTPError")
        => /\ reaction' = reaction
           /\ genes' = genes
           /\ metabolites' = metabolites
           /\ LRU_CACHE' = LRU_CACHE
           /\ result'.requests[1].key \notin Keys(LRU_CACHE')

\* The same call again, right after its fetch failed.
C18_Again ==
    (/\ result.op \in ReactionOps /\ result.status = "HTTPError"
     /\ result'.op = result.op /\ result'.arg = result.arg)
        => /\ result'.requests # <<>>
           /\ result'.requests[1].key = result.requests[1].key

\* C18: when the fetch of get_reaction or get_model_reaction fails, the
\* caller's Reaction, the caller's genes and metabolites mappings and the
\* response cache are as before the call, the failed triple is not in the
\* cache, and the same call made again issues a request for it.
C18_FailureLeavesState == [][C18_Failed /\ C18_Again]_vars

\* C18 witness: the fetch of get_model_reaction failed for the caller's
\* Reaction, which an earlier call had populated, with a non-empty response
\* cache and non-empty caller mappings.
C18_Witness ==
    /\ result.op = "get_model_reaction"
    /\ result.status = "HTTPError"
    /\ result.arg.kind = "Reaction"
    /\ TheReaction._metabolites # {}
    /\ TheReaction.annotation.models_containing_reaction # {}
    /\ LRU_CACHE # <<>>
    /\ genes # <<>>
    /\ metabolites # <<>>

====
